---- MODULE Spec2Model ----
(***************************************************************************)
(* Model of three adapters of the Jupyter extension:                       *)
(*   - ExportBase (executeCommand, invokeWithFileSynced, export)           *)
(*   - JupyterServerSelector (addJupyterServer, old and new path)          *)
(* Every awaited call of a handler is one step of the model; the outcome   *)
(* of the awaited host/library call is chosen nondeterministically.        *)
(***************************************************************************)
EXTENDS Integers, Sequences, FiniteSets, TLC

VARIABLES
    \* ---- ExportBase ----
    pc,            \* position of the running ExportBase call
    method,        \* which ExportBase method was called
    kernel,        \* what kernelProvider.get(sourceDocument) yields
    entrySession,  \* kernel.session when the call was made
    session,       \* kernel.session now
    format,        \* ExportFormat of the call
    cm,            \* the ContentsManager handle: "none" | "open" | "disposed"
    bfHandle,      \* the IBackupFile handle: "none" | "live" | "disposed"
    remoteFiles,   \* files present on the remote store
    tempTarget,    \* local variable tempTarget ("" is undefined)
    outputs,       \* the local outputs of the nbconvert run, until text is tested
    text,          \* result of parseStreamOutput for the nbconvert run
    pending,       \* exception the try block threw, in flight through finally
    result,        \* how the call ended
    localWritten,  \* whether fs.writeFile(target) completed
    ops,           \* log of the host/library calls made, in order
    \* ---- JupyterServerSelector ----
    spc,           \* position of the running addJupyterServer call
    sProvider,     \* the provider of the running call
    sPath,         \* "old" | "new" : the path the experiment selected
    sErr,          \* the error validateRemoteUri threw in this call ("none")
    storage,       \* serverUriStorage: providers added, in order
    storage0,      \* serverUriStorage when the running call started
    sLog,          \* log of the calls made by addJupyterServer calls
    calls,         \* number of addJupyterServer calls started
    \* ---- validateSelectJupyterURI ----
    vpc,           \* position of the running validateSelectJupyterURI call
    vWeb,          \* isWebExtension
    vErr,          \* what validateRemoteUri threw: its kind and message
    vAnswers,      \* the answers given to the certificate prompts shown
    vRet,          \* the value returned: string | undefined
    \* ---- ConnectionDisplayDataProvider ----
    details,       \* this.details: connection id -> reference to an entry object
    objs,          \* the ConnectionDisplayData objects ever constructed, by reference
    connInterp,    \* connection.interpreter of the Python connection objects
    subs,          \* the listeners registered with onDidChangeInterpreter
    inflight,      \* the refresh promises not yet settled
    settled,       \* the refresh promises settled, with their results
    returned,      \* <<connection id, entry reference>> of every getDisplayData return
    gets,          \* number of getDisplayData calls made
    events,        \* number of interpreter-change events fired
    lastEvent,     \* the environment id the latest event fired with
    firstGet,      \* connection id -> the connection of its first getDisplayData call
    unhandled      \* number of promise rejections nobody handled

exportVars == <<pc, method, kernel, entrySession, session, format, cm, bfHandle,
                remoteFiles, tempTarget, outputs, text, pending, result, localWritten, ops>>
serverVars == <<spc, sProvider, sPath, sErr, storage, storage0, sLog, calls>>
validateVars == <<vpc, vWeb, vErr, vAnswers, vRet>>
displayVars == <<details, objs, connInterp, subs, inflight, settled, returned,
                 gets, events, lastEvent, firstGet, unhandled>>
vars == <<exportVars, serverVars, validateVars, displayVars>>
notExportVars == <<serverVars, validateVars, displayVars>>
notServerVars == <<exportVars, validateVars, displayVars>>
notValidateVars == <<exportVars, serverVars, displayVars>>
notDisplayVars == <<exportVars, serverVars, validateVars>>

----------------------------------------------------------------------------
\* Bounds of the model

\* the largest number of parts of a multiline stream text
MaxParts == 3
\* the largest number of outputs a silent execution returns
MaxOutputs == 2
\* the number of addJupyterServer calls of one behaviour
MaxCalls == 2
\* the largest length of an error message, in tokens
MaxMsgLen == 5
\* the number of getDisplayData calls of one behaviour
MaxGets == 2
\* the number of interpreter-change events of one behaviour
MaxEvents == 1

----------------------------------------------------------------------------
\* Values

Formats == {"html", "pdf", "python"}

\* A string is modelled by its tokens: "ws" is a whitespace character, "x" any
\* other text and "TB" an occurrence of "Traceback (most recent call last)".
Tokens == {"ws", "x", "TB"}
\* One element of a multiline string: the empty string or one token
Parts == {<<>>} \cup {<<t>> : t \in Tokens}
MultilineStrings == UNION {[1..n -> Parts] : n \in 0..MaxParts}

\* An optional string (string | undefined)
Undefined == [def |-> FALSE, v |-> <<>>]
Some(s) == [def |-> TRUE, v |-> s]

\* nbformat outputs: a stream output has a name, the other kinds have none
StreamOutputs == {[name |-> n, output_type |-> "stream", text |-> t] :
                    n \in {"stdout", "stderr"}, t \in MultilineStrings}
OtherOutputs == {[name |-> "none", output_type |-> "execute_result", text |-> <<>>]}
Outputs == StreamOutputs \cup OtherOutputs
\* What executeSilently returns: the code reads outputs.length and outputs[0] only
OutputLists == {[length |-> 0, first |-> o] : o \in OtherOutputs}
                 \cup {[length |-> n, first |-> o] : n \in 1..MaxOutputs, o \in Outputs}

NoError == [name |-> "none", message |-> <<>>]
Err(n, m) == [name |-> n, message |-> m]
\* the rejection of an awaited host/library call
CallFailed(what) == Err("CallFailed", <<what>>)

Op(o, a, k) == [op |-> o, arg |-> a, ok |-> k]

Idle == [status |-> "idle", error |-> NoError]
Running == [status |-> "running", error |-> NoError]
Returned == [status |-> "returned", error |-> NoError]
Threw(e) == [status |-> "threw", error |-> e]

----------------------------------------------------------------------------
\* Pure helpers of ExportBase

RECURSIVE Flatten(_)
Flatten(parts) ==
    IF parts = <<>> THEN <<>> ELSE Head(parts) \o Flatten(Tail(parts))

concatMultilineString(t) == Flatten(t)

RECURSIVE TrimStart(_)
TrimStart(s) ==
    IF s # <<>> /\ Head(s) = "ws" THEN TrimStart(Tail(s)) ELSE s

RECURSIVE TrimEnd(_)
TrimEnd(s) ==
    IF s # <<>> /\ s[Len(s)] = "ws" THEN TrimEnd(SubSeq(s, 1, Len(s) - 1)) ELSE s

Trim(s) == TrimEnd(TrimStart(s))

parseStreamOutput_or(outs) ==
    IF outs.length = 0 THEN Undefined
    ELSE IF outs.first.name # "stdout" \/ outs.first.output_type # "stream"
         THEN Undefined
         ELSE Some(Trim(concatMultilineString(outs.first.text)))

parseStreamOutput(outs) ==
    IF outs.length = 0 THEN Undefined
    ELSE IF outs.first.name # "stdout" /\ outs.first.output_type # "stream"
         THEN Undefined
         ELSE Some(Trim(concatMultilineString(outs.first.text)))

\* "!message" is true of undefined and of the empty string
isExportFailed_nonEmptyOnly(message) ==
    /\ message.def
    /\ \E i \in 1..Len(message.v) : message.v[i] = "TB"

isExportFailed(message) ==
    \/ ~message.def
    \/ message.v = <<>>
    \/ \E i \in 1..Len(message.v) : message.v[i] = "TB"

\* `Failed to export to ${format}`
FallbackMessage(f) == <<"Failed to export to ", f>>

\* new Error(text || `Failed to export to ${format}`)
ExportError(t, f) ==
    Err("Error", IF t.def /\ t.v # <<>> THEN t.v ELSE FallbackMessage(f))

----------------------------------------------------------------------------
\* ExportBase

Kernels == {[exists |-> e, remote |-> r, resource |-> u] :
              e \in BOOLEAN, r \in BOOLEAN, u \in BOOLEAN}
Sessions == {"none", "noKernel", "ok"}

InitExport ==
    /\ pc = "idle"
    /\ method = "none"
    /\ kernel = [exists |-> FALSE, remote |-> FALSE, resource |-> FALSE]
    /\ entrySession = "none"
    /\ session = "none"
    /\ format = "html"
    /\ cm = "none"
    /\ bfHandle = "none"
    /\ remoteFiles = {}
    /\ tempTarget = ""
    /\ outputs = <<>>
    /\ text = Undefined
    /\ pending = NoError
    /\ result = Idle
    /\ localWritten = FALSE
    /\ ops = <<>>

\* export(): the base class does nothing
Export ==
    /\ pc = "idle"
    /\ method' = "export"
    /\ pc' = "done"
    /\ result' = Returned
    /\ UNCHANGED <<outputs, kernel, entrySession, session, format, cm, bfHandle, remoteFiles,
                   tempTarget, text, pending, localWritten, ops>>

\* The guards of executeCommand after the optional kernel.start:
\* kernel.session?.kernel, isRemoteConnection(metadata), !kernel.resourceUri
CanExport_ignoreResource(k, s) == s = "ok" /\ k.remote
CanExport_ignoreSession(k, s) == k.remote /\ ~k.resource

CanExport(k, s) == s = "ok" /\ k.remote /\ ~k.resource

\* if (!kernel.session) await kernel.start(...)
NeedsStart(s) == s = "none"

ExecuteCommand(k, s, f) ==
    /\ pc = "idle"
    /\ ~k.exists => (s = "none" /\ ~k.remote /\ ~k.resource)
    /\ method' = "executeCommand"
    /\ kernel' = k
    /\ entrySession' = s
    /\ session' = s
    /\ format' = f
    /\ IF ~k.exists
         THEN pc' = "done" /\ result' = Returned
         ELSE IF NeedsStart(s)
                THEN pc' = "start" /\ result' = Running
                ELSE IF CanExport(k, s)
                       THEN pc' = "createConnectionInfo" /\ result' = Running
                       ELSE pc' = "done" /\ result' = Returned
    /\ UNCHANGED <<outputs, cm, bfHandle, remoteFiles, tempTarget, text, pending,
                   localWritten, ops>>

\* kernel.start settles: it throws, or leaves the kernel with a session or without
StartDone(outcome) ==
    /\ pc = "start"
    /\ ops' = Append(ops, Op("kernel.start", outcome, outcome # "throw"))
    /\ IF outcome = "throw"
         THEN /\ pc' = "done"
              /\ result' = Threw(CallFailed("kernel.start"))
              /\ UNCHANGED session
         ELSE /\ session' = outcome
              /\ IF CanExport(kernel, outcome)
                   THEN pc' = "createConnectionInfo" /\ UNCHANGED result
                   ELSE pc' = "done" /\ result' = Returned
    /\ UNCHANGED <<outputs, method, kernel, entrySession, format, cm, bfHandle, remoteFiles,
                   tempTarget, text, pending, localWritten>>

\* A step before the contents manager exists: a failure propagates to the caller
CreateConnectionInfoDone(ok) ==
    /\ pc = "createConnectionInfo"
    /\ ops' = Append(ops, Op("createConnectionInfo", "", ok))
    /\ IF ok THEN pc' = "getServerConnectSettings" /\ UNCHANGED result
             ELSE pc' = "done" /\ result' = Threw(CallFailed("createConnectionInfo"))
    /\ UNCHANGED <<outputs, method, kernel, entrySession, session, format, cm, bfHandle,
                   remoteFiles, tempTarget, text, pending, localWritten>>

\* getServerConnectSettings, then new ContentsManager({ serverSettings })
GetServerConnectSettingsDone(ok) ==
    /\ pc = "getServerConnectSettings"
    /\ ops' = Append(ops, Op("getServerConnectSettings", "", ok))
    /\ IF ok THEN pc' = "getContent" /\ cm' = "open" /\ UNCHANGED result
             ELSE /\ pc' = "done"
                  /\ result' = Threw(CallFailed("getServerConnectSettings"))
                  /\ UNCHANGED cm
    /\ UNCHANGED <<outputs, method, kernel, entrySession, session, format, bfHandle,
                   remoteFiles, tempTarget, text, pending, localWritten>>

\* exportUtil.getContent(sourceDocument)
GetContentDone(ok) ==
    /\ pc = "getContent"
    /\ ops' = Append(ops, Op("getContent", "", ok))
    /\ IF ok THEN pc' = "createBackingFile" /\ UNCHANGED result
             ELSE pc' = "done" /\ result' = Threw(CallFailed("getContent"))
    /\ UNCHANGED <<outputs, method, kernel, entrySession, session, format, cm, bfHandle,
                   remoteFiles, tempTarget, text, pending, localWritten>>

\* backingFileCreator.createBackingFile: a file, undefined, or an exception
CreateBackingFileDone(outcome) ==
    /\ pc = "createBackingFile"
    /\ ops' = Append(ops, Op("createBackingFile", outcome, outcome # "throw"))
    /\ CASE outcome = "file" ->
              /\ remoteFiles' = remoteFiles \cup {"bf"}
              /\ bfHandle' = "live"
              /\ pc' = "save"
              /\ UNCHANGED result
         [] outcome = "undefined" ->
              /\ pc' = "done"
              /\ result' = Returned
              /\ UNCHANGED <<remoteFiles, bfHandle>>
         [] outcome = "throw" ->
              /\ pc' = "done"
              /\ result' = Threw(CallFailed("createBackingFile"))
              /\ UNCHANGED <<remoteFiles, bfHandle>>
    /\ UNCHANGED <<outputs, method, kernel, entrySession, session, format, cm,
                   tempTarget, text, pending, localWritten>>

\* if (tempTarget) await contentsManager.delete(tempTarget): where the finally
\* block starts
FinallyPc(tt) == IF tt # "" THEN "deleteTemp" ELSE "disposeBacking"

\* contentsManager.save(...).catch(noop), then the synchronous head of getCWD:
\* if (!kernel.session?.kernel) throw new SessionDisposedError()
SaveDone(ok, alive) ==
    /\ pc = "save"
    /\ ops' = Append(ops, Op("save", "bf", ok))
    /\ IF alive
         THEN pc' = "getCWD" /\ UNCHANGED <<session, pending>>
         ELSE /\ session' = "none"
              /\ pending' = Err("SessionDisposedError", <<>>)
              /\ pc' = FinallyPc(tempTarget)
    /\ UNCHANGED <<outputs, method, kernel, entrySession, format, cm, bfHandle, remoteFiles,
                   tempTarget, text, result, localWritten>>

\* executeSilently(kernel, `import os;os.getcwd();`)
CwdDone(ok) ==
    /\ pc = "getCWD"
    /\ ops' = Append(ops, Op("executeSilently", "cwd", ok))
    /\ IF ok THEN pc' = "newUntitled" /\ UNCHANGED pending
             ELSE /\ pending' = CallFailed("executeSilently")
                  /\ pc' = FinallyPc(tempTarget)
    /\ UNCHANGED <<outputs, method, kernel, entrySession, session, format, cm, bfHandle,
                   remoteFiles, tempTarget, text, result, localWritten>>

\* contentsManager.newUntitled({ type: 'file', ext }); tempTarget = tempFile.path
NewUntitledDone(ok) ==
    /\ pc = "newUntitled"
    /\ ops' = Append(ops, Op("newUntitled", "tmp", ok))
    /\ IF ok THEN /\ tempTarget' = "tmp"
                  /\ remoteFiles' = remoteFiles \cup {"tmp"}
                  /\ pc' = "nbconvert"
                  /\ UNCHANGED pending
             ELSE /\ pending' = CallFailed("newUntitled")
                  /\ pc' = FinallyPc(tempTarget)
                  /\ UNCHANGED <<tempTarget, remoteFiles>>
    /\ UNCHANGED <<outputs, method, kernel, entrySession, session, format, cm, bfHandle,
                   text, result, localWritten>>

\* executeSilently(`!jupyter nbconvert ...`), parseStreamOutput, isExportFailed
NbconvertDone(ok, o) ==
    /\ pc = "nbconvert"
    /\ ops' = Append(ops, Op("executeSilently", "nbconvert", ok))
    /\ outputs' = IF ok THEN <<o>> ELSE <<>>
    /\ IF ~ok
         THEN /\ pending' = CallFailed("executeSilently")
              /\ pc' = FinallyPc(tempTarget)
              /\ UNCHANGED text
         ELSE /\ text' = parseStreamOutput(o)
              /\ IF isExportFailed(text')
                   THEN /\ pending' = ExportError(text', format)
                        /\ pc' = FinallyPc(tempTarget)
                   ELSE pc' = "get" /\ UNCHANGED pending
    /\ UNCHANGED <<method, kernel, entrySession, session, format, cm, bfHandle,
                   remoteFiles, tempTarget, result, localWritten>>

\* contentsManager.get(tempTarget, ...) (and, for pdf, the decoding of its content)
GetDone(ok) ==
    /\ pc = "get"
    /\ outputs' = <<>>
    /\ ops' = Append(ops, Op("get", tempTarget, ok))
    /\ IF ok THEN pc' = "writeFile" /\ UNCHANGED pending
             ELSE /\ pending' = CallFailed("get")
                  /\ pc' = FinallyPc(tempTarget)
    /\ UNCHANGED <<method, kernel, entrySession, session, format, cm, bfHandle,
                   remoteFiles, tempTarget, text, result, localWritten>>

\* fs.writeFile(target, ...): the last statement of the try block
WriteFileDone(ok) ==
    /\ pc = "writeFile"
    /\ ops' = Append(ops, Op("writeFile", "target", ok))
    /\ localWritten' = ok
    /\ pending' = IF ok THEN NoError ELSE CallFailed("writeFile")
    /\ pc' = FinallyPc(tempTarget)
    /\ UNCHANGED <<outputs, method, kernel, entrySession, session, format, cm, bfHandle,
                   remoteFiles, tempTarget, text, result>>

\* finally: await contentsManager.delete(tempTarget) -- no catch: a rejection
\* leaves the finally block and is thrown instead of the exception in flight
DeleteTempDone(ok) ==
    /\ pc = "deleteTemp"
    /\ outputs' = <<>>
    /\ ops' = Append(ops, Op("delete", tempTarget, ok))
    /\ IF ok THEN /\ remoteFiles' = remoteFiles \ {tempTarget}
                  /\ pc' = "disposeBacking"
                  /\ UNCHANGED <<result, pending>>
             ELSE /\ pc' = "done"
                  /\ result' = Threw(CallFailed("delete"))
                  /\ UNCHANGED <<remoteFiles, pending>>
    /\ UNCHANGED <<method, kernel, entrySession, session, format, cm, bfHandle,
                   tempTarget, text, localWritten>>

\* finally: await backingFile.dispose()
DisposeBackingDone ==
    /\ pc = "disposeBacking"
    /\ ops' = Append(ops, Op("backingFile.dispose", "bf", TRUE))
    /\ bfHandle' = "disposed"
    /\ pc' = "deleteBacking"
    /\ UNCHANGED <<outputs, method, kernel, entrySession, session, format, cm, remoteFiles,
                   tempTarget, text, pending, result, localWritten>>

\* finally: await contentsManager.delete(backingFile.filePath).catch(noop);
\* contentsManager.dispose(); then the call completes
DeleteBackingDone(ok) ==
    /\ pc = "deleteBacking"
    /\ ops' = ops \o <<Op("delete", "bf", ok), Op("contentsManager.dispose", "", TRUE)>>
    /\ remoteFiles' = IF ok THEN remoteFiles \ {"bf"} ELSE remoteFiles
    /\ cm' = "disposed"
    /\ pc' = "done"
    /\ result' = IF pending = NoError THEN Returned ELSE Threw(pending)
    /\ UNCHANGED <<outputs, method, kernel, entrySession, session, format, bfHandle,
                   tempTarget, text, pending, localWritten>>

----------------------------------------------------------------------------
\* ExportBase.invokeWithFileSynced: the contents manager is the caller's

InvokeWithFileSynced(resource) ==
    /\ pc = "idle"
    /\ method' = "invokeWithFileSynced"
    /\ kernel' = [exists |-> TRUE, remote |-> TRUE, resource |-> resource]
    /\ cm' = "open"
    /\ IF ~resource
         THEN pc' = "done" /\ result' = Returned
         ELSE pc' = "syncCreateBackingFile" /\ result' = Running
    /\ UNCHANGED <<outputs, entrySession, session, format, bfHandle, remoteFiles, tempTarget,
                   text, pending, localWritten, ops>>

SyncCreateBackingFileDone(outcome) ==
    /\ pc = "syncCreateBackingFile"
    /\ ops' = Append(ops, Op("createBackingFile", outcome, outcome # "throw"))
    /\ CASE outcome = "file" ->
              /\ remoteFiles' = remoteFiles \cup {"bf"}
              /\ bfHandle' = "live"
              /\ pc' = "syncSave"
              /\ UNCHANGED result
         [] outcome = "undefined" ->
              /\ pc' = "done"
              /\ result' = Returned
              /\ UNCHANGED <<remoteFiles, bfHandle>>
         [] outcome = "throw" ->
              /\ pc' = "done"
              /\ result' = Threw(CallFailed("createBackingFile"))
              /\ UNCHANGED <<remoteFiles, bfHandle>>
    /\ UNCHANGED <<outputs, method, kernel, entrySession, session, format, cm,
                   tempTarget, text, pending, localWritten>>

\* contentsManager.save(...).catch(noop)
SyncSaveDone(ok) ==
    /\ pc = "syncSave"
    /\ ops' = Append(ops, Op("save", "bf", ok))
    /\ pc' = "syncHandler"
    /\ UNCHANGED <<outputs, method, kernel, entrySession, session, format, cm, bfHandle,
                   remoteFiles, tempTarget, text, pending, result, localWritten>>

\* await handler({ filePath, dispose }): the handler returns, returns after
\* using the disposer it was handed, or throws. No try/finally surrounds it.
SyncHandlerDone(outcome) ==
    /\ pc = "syncHandler"
    /\ ops' = IF outcome = "disposes"
                THEN ops \o <<Op("backingFile.dispose", "bf", TRUE),
                              Op("handler", outcome, TRUE)>>
                ELSE Append(ops, Op("handler", outcome, outcome # "throw"))
    /\ bfHandle' = IF outcome = "disposes" THEN "disposed" ELSE bfHandle
    /\ IF outcome = "throw"
         THEN pc' = "done" /\ result' = Threw(CallFailed("handler"))
         ELSE pc' = "syncDispose" /\ UNCHANGED result
    /\ UNCHANGED <<outputs, method, kernel, entrySession, session, format, cm,
                   remoteFiles, tempTarget, text, pending, localWritten>>

\* await backingFile.dispose()
SyncDisposeDone ==
    /\ pc = "syncDispose"
    /\ ops' = Append(ops, Op("backingFile.dispose", "bf", TRUE))
    /\ bfHandle' = "disposed"
    /\ pc' = "syncDelete"
    /\ UNCHANGED <<outputs, method, kernel, entrySession, session, format, cm, remoteFiles,
                   tempTarget, text, pending, result, localWritten>>

\* await contentsManager.delete(backingFile.filePath).catch(noop)
SyncDeleteDone(ok) ==
    /\ pc = "syncDelete"
    /\ ops' = Append(ops, Op("delete", "bf", ok))
    /\ remoteFiles' = IF ok THEN remoteFiles \ {"bf"} ELSE remoteFiles
    /\ pc' = "done"
    /\ result' = Returned
    /\ UNCHANGED <<outputs, method, kernel, entrySession, session, format, cm, bfHandle,
                   tempTarget, text, pending, localWritten>>

BackingFileOutcomes == {"file", "undefined", "throw"}
StartOutcomes == {"ok", "noKernel", "none", "throw"}
HandlerOutcomes == {"returns", "disposes", "throw"}

----------------------------------------------------------------------------
\* JupyterServerSelector

Providers == {"p1", "p2"}
\* What validateRemoteUri does: it resolves ("none") or throws one of these
ValidationOutcomes == {"none", "selfCerts", "selfCertsExpired", "invalidPassword", "other"}

\* generateIdFromRemoteProvider(provider)
generateIdFromRemoteProvider(p) == <<"id", p>>

SOp(o, p, a, h) ==
    [call |-> calls, path |-> sPath, op |-> o, provider |-> p, arg |-> a,
     answer |-> h, id |-> <<>>]

InitServer ==
    /\ spc = "idle"
    /\ sProvider = "p1"
    /\ sPath = "old"
    /\ sErr = "none"
    /\ storage = <<>>
    /\ storage0 = <<>>
    /\ sLog = <<>>
    /\ calls = 0

\* addJupyterServer: the PasswordManager experiment selects the path
AddJupyterServer(p, inExperiment) ==
    /\ spc = "idle"
    /\ calls < MaxCalls
    /\ calls' = calls + 1
    /\ sProvider' = p
    /\ sPath' = IF inExperiment THEN "new" ELSE "old"
    /\ sErr' = "none"
    /\ storage0' = storage
    /\ spc' = "validate"
    /\ UNCHANGED <<storage, sLog>>

\* addJupyterServerOld: where the call goes once validateRemoteUri has settled
OldPathAfterValidate_otherFallsThrough(e) ==
    CASE e = "none" -> "add"
      [] e \in {"selfCerts", "selfCertsExpired"} -> "prompt"
      [] e = "invalidPassword" -> "idle"
      [] OTHER -> "add"

OldPathAfterValidate_passwordReported(e) ==
    CASE e = "none" -> "add"
      [] e \in {"selfCerts", "selfCertsExpired"} -> "prompt"
      [] OTHER -> "handleError"

OldPathAfterValidate(e) ==
    CASE e = "none" -> "add"
      [] e \in {"selfCerts", "selfCertsExpired"} -> "prompt"
      [] e = "invalidPassword" -> "idle"
      [] OTHER -> "handleError"

\* addJupyterServerNew: any error is logged and the call returns
NewPathAfterValidate_addAnyway(e) == "add"

NewPathAfterValidate(e) == IF e = "none" THEN "add" ELSE "idle"

ValidateDone(e) ==
    /\ spc = "validate"
    /\ sErr' = e
    /\ sLog' = Append(sLog, SOp("validateRemoteUri", sProvider, e, ""))
    /\ spc' = IF sPath = "new" THEN NewPathAfterValidate(e) ELSE OldPathAfterValidate(e)
    /\ UNCHANGED <<sProvider, sPath, storage, storage0, calls>>

\* if (!handled) return; otherwise fall through to serverUriStorage.add
AfterPrompt_ignoreAnswer(handled) == "add"
AfterPrompt_retry(handled) == IF handled THEN "validate" ELSE "idle"

AfterPrompt(handled) == IF handled THEN "add" ELSE "idle"

\* handleSelfCertsError / handleExpiredCertsError: the user is asked and answers
PromptDone(handled) ==
    /\ spc = "prompt"
    /\ sLog' = Append(sLog, SOp("prompt", sProvider, sErr, IF handled THEN "yes" ELSE "no"))
    /\ spc' = AfterPrompt(handled)
    /\ UNCHANGED <<sProvider, sPath, sErr, storage, storage0, calls>>

\* errorHandler.handleError(new RemoteJupyterServerConnectionError(userURI, provider, err))
HandleErrorDone ==
    /\ spc = "handleError"
    /\ sLog' = Append(sLog, [SOp("handleError", sProvider, sErr, "")
                               EXCEPT !.id = generateIdFromRemoteProvider(sProvider)])
    /\ spc' = "idle"
    /\ UNCHANGED <<sProvider, sPath, sErr, storage, storage0, calls>>

\* serverUriStorage.add(provider)
AddDone ==
    /\ spc = "add"
    /\ storage' = Append(storage, sProvider)
    /\ sLog' = Append(sLog, SOp("add", sProvider, sErr, ""))
    /\ spc' = "idle"
    /\ UNCHANGED <<sProvider, sPath, sErr, storage0, calls>>

----------------------------------------------------------------------------
\* validateSelectJupyterURI

\* An error message is modelled by its tokens: "ws" is a whitespace character,
\* "h" the text "http://" or "https://" and "c" any other character.
MsgTokens == {"ws", "c", "h"}
Messages == UNION {[1..n -> MsgTokens] : n \in 0..MaxMsgLen}

\* the longest prefix of s without whitespace: what [^\s]+ consumes
RECURSIVE NonSpacePrefix(_)
NonSpacePrefix(s) ==
    IF s = <<>> \/ Head(s) = "ws" THEN <<>> ELSE <<Head(s)>> \o NonSpacePrefix(Tail(s))

\* whether /https?:\/\/[^\s]+/ matches at the head of s
UrlAtHead(s) == Len(s) >= 2 /\ s[1] = "h" /\ s[2] # "ws"

\* (url) => `[${url}](${url})`
MarkdownLink(url) == <<"[">> \o url \o <<"](">> \o url \o <<")">>

\* a replace without the g flag: only the first match is replaced
RECURSIVE LinkUrls_firstOnly(_)
LinkUrls_firstOnly(s) ==
    IF s = <<>> THEN <<>>
    ELSE IF UrlAtHead(s)
           THEN MarkdownLink(NonSpacePrefix(s))
                  \o SubSeq(s, Len(NonSpacePrefix(s)) + 1, Len(s))
           ELSE <<Head(s)>> \o LinkUrls_firstOnly(Tail(s))

\* message.replace(/(https?:\/\/[^\s]+)/g, (url) => `[${url}](${url})`)
RECURSIVE LinkUrls(_)
LinkUrls(s) ==
    IF s = <<>> THEN <<>>
    ELSE IF UrlAtHead(s)
           THEN MarkdownLink(NonSpacePrefix(s))
                  \o LinkUrls(SubSeq(s, Len(NonSpacePrefix(s)) + 1, Len(s)))
           ELSE <<Head(s)>> \o LinkUrls(Tail(s))

\* err.message || err.toString(): an Error without message prints as its name
ErrorText(m) == IF m # <<>> THEN m ELSE <<"c">>

\* DataScience.remoteJupyterConnectionFailedWithoutServerWithError(Web)(errorMessage)
ConnectionFailedMessage(web, errorMessage) ==
    <<IF web THEN "remoteJupyterConnectionFailedWithoutServerWithErrorWeb"
             ELSE "remoteJupyterConnectionFailedWithoutServerWithError">> \o errorMessage

NoValidationError == [kind |-> "none", message |-> <<>>]

InitValidate ==
    /\ vpc = "idle"
    /\ vWeb = FALSE
    /\ vErr = NoValidationError
    /\ vAnswers = <<>>
    /\ vRet = Undefined

ValidateSelectJupyterURI(web) ==
    /\ vpc = "idle"
    /\ vWeb' = web
    /\ vpc' = "validate"
    /\ UNCHANGED <<vErr, vAnswers, vRet>>

\* the value returned from the catch block without a prompt
ReturnAfterError(web, err) ==
    IF err.kind = "invalidPassword"
      THEN Some(<<"passwordFailure">>)
      ELSE Some(ConnectionFailedMessage(web, LinkUrls(ErrorText(err.message))))

\* jupyterConnection.validateRemoteUri(provider, serverUri) settles
SelectValidateDone(kind, m) ==
    /\ vpc = "validate"
    /\ kind # "other" => m = <<>>
    /\ vErr' = [kind |-> kind, message |-> m]
    /\ CASE kind = "none" -> vpc' = "done" /\ vRet' = Undefined
         [] kind \in {"selfCerts", "selfCertsExpired"} -> vpc' = "prompt" /\ UNCHANGED vRet
         [] OTHER -> vpc' = "done" /\ vRet' = ReturnAfterError(vWeb, vErr')
    /\ UNCHANGED <<vWeb, vAnswers>>

\* if (!handled) return DataScience.jupyterSelfCert...ErrorMessageOnly;
\* a handled error leaves the catch block and the function returns undefined
ReturnAfterPrompt(kind, handled) ==
    IF handled THEN Undefined
    ELSE Some(<<IF kind = "selfCerts" THEN "jupyterSelfCertFailErrorMessageOnly"
                                      ELSE "jupyterSelfCertExpiredErrorMessageOnly">>)

\* handleSelfCertsError / handleExpiredCertsError settles
SelectPromptDone(handled) ==
    /\ vpc = "prompt"
    /\ vAnswers' = Append(vAnswers, handled)
    /\ vRet' = ReturnAfterPrompt(vErr.kind, handled)
    /\ vpc' = "done"
    /\ UNCHANGED <<vWeb, vErr>>

----------------------------------------------------------------------------
\* ConnectionDisplayDataProvider

\* The connection objects handed to getDisplayData. c1 and c1b are two objects
\* with the same id: c1 holds a Conda environment without Python, c1b the
\* same environment already resolved.
Connections == {"c1", "c1b", "c2", "c3"}
PythonConnections == {"c1", "c1b"}
ConnId(c) ==
    CASE c \in PythonConnections -> "k1"
      [] c = "c2" -> "k2"
      [] OTHER -> "k3"
ConnKind(c) ==
    CASE c \in PythonConnections -> "startUsingPythonInterpreter"
      [] c = "c2" -> "connectToLiveRemoteKernel"
      [] OTHER -> "startUsingRemoteKernelSpec"

Env(id, name, path, type, noPython) ==
    [id |-> id, name |-> name, path |-> path, type |-> type,
     isCondaEnvWithoutPython |-> noPython]
NoEnv == [id |-> "undefined"]
EnvIds == {"i1", "i2"}
\* this.interpreters.resolvedEnvironments may hold any of these
ResolvedEnvs ==
    {Env("i1", "n0", "p0", "conda", FALSE), Env("i1", "n1", "p0", "conda", FALSE),
     Env("i1", "n1", "p1", "other", FALSE), Env("i2", "n2", "p2", "other", FALSE)}
InitialInterpreter(c) ==
    IF c = "c1" THEN Env("i1", "n0", "p0", "conda", TRUE)
                ELSE Env("i1", "n1", "p0", "conda", FALSE)

\* getDisplayNameOrNameOfKernelConnection(connection)
Label(c, ci) == IF c \in PythonConnections THEN ci[c].name ELSE c
\* getKernelConnectionDisplayPath(connection, workspace, platform)
Description(c, ci) == IF c \in PythonConnections THEN ci[c].path ELSE ""
\* getRemoteKernelSessionInformation(connection) for a live kernel, else ''
Detail(c) == IF ConnKind(c) = "connectToLiveRemoteKernel" THEN "session" ELSE ""
\* getKernelConnectionCategorySync(connection)
CategorySync(c, ci) ==
    IF c \in PythonConnections
      THEN (IF ci[c].type = "conda" THEN "pythonConda" ELSE "pythonOther")
      ELSE "jupyterRemote"
\* what getKernelConnectionCategory / getRemoteServerDisplayName may resolve to
LookupResults(what) ==
    IF what = "category" THEN {"pythonConda", "jupyterRemote"} ELSE {"srvA", "srvB"}
Rejected == "rejected"

\* new ConnectionDisplayData(connection.id, label, description, detail, category)
ConnectionDisplayData(id, label, description, detail, category) ==
    [id |-> id, label |-> label, description |-> description, detail |-> detail,
     category |-> category, serverDisplayName |-> "", fired |-> 0]
\* details.triggerChange()
TriggerChange(o) == [o EXCEPT !.fired = @ + 1]

Refresh(g, c, oid, what) == [g |-> g, id |-> ConnId(c), oid |-> oid, what |-> what]
Settle(r, res) == [g |-> r.g, id |-> r.id, oid |-> r.oid, what |-> r.what, res |-> res]

InitDisplay ==
    /\ details = <<>>
    /\ objs = <<>>
    /\ connInterp = [c \in PythonConnections |-> InitialInterpreter(c)]
    /\ subs = <<>>
    /\ inflight = {}
    /\ settled = {}
    /\ returned = {}
    /\ gets = 0
    /\ events = 0
    /\ lastEvent = "none"
    /\ firstGet = <<>>
    /\ unhandled = 0

\* a lookup that creates an entry on every call
CacheMiss_always(id) == TRUE
\* !this.details.get(connection.id)
CacheMiss(id) == id \notin DOMAIN details

\* a listener for every Python connection, whatever its interpreter
Subscribes_anyPython(c) == ConnKind(c) = "startUsingPythonInterpreter"
\* connection.kind === 'startUsingPythonInterpreter' &&
\* connection.interpreter.isCondaEnvWithoutPython
Subscribes(c) ==
    /\ ConnKind(c) = "startUsingPythonInterpreter"
    /\ connInterp[c].isCondaEnvWithoutPython

\* the refreshes one getDisplayData call starts
StartedRefreshes(g, c, oid) ==
    (IF ConnKind(c) \in {"connectToLiveRemoteKernel", "startUsingRemoteKernelSpec"}
       THEN {Refresh(g, c, oid, "name")} ELSE {})
      \cup {Refresh(g, c, oid, "category")}

GetDisplayData(c) ==
    /\ gets < MaxGets
    /\ gets' = gets + 1
    /\ LET id == ConnId(c)
           miss == CacheMiss(id)
           newDetails == ConnectionDisplayData(id, Label(c, connInterp),
                             Description(c, connInterp), Detail(c),
                             CategorySync(c, connInterp))
           oid == IF miss THEN Len(objs) + 1 ELSE details[id]
       IN /\ objs' = IF miss THEN Append(objs, newDetails) ELSE objs
          /\ details' = [i \in DOMAIN details \cup {id} |->
                            IF i = id THEN oid ELSE details[i]]
          /\ subs' = IF miss /\ Subscribes(c)
                       THEN Append(subs, [conn |-> c, oid |-> oid]) ELSE subs
          /\ inflight' = inflight \cup StartedRefreshes(gets + 1, c, oid)
          /\ returned' = returned \cup {<<id, oid>>}
          /\ firstGet' = IF id \in DOMAIN firstGet THEN firstGet
                          ELSE [i \in DOMAIN firstGet \cup {id} |->
                                  IF i = id
                                    THEN [conn |-> c,
                                          isCondaEnvWithoutPython |->
                                              /\ c \in PythonConnections
                                              /\ connInterp[c].isCondaEnvWithoutPython]
                                    ELSE firstGet[i]]
    /\ UNCHANGED <<connInterp, settled, events, lastEvent, unhandled>>

\* the body of updateInterpreterInfo once the resolved interpreter is found
UpdateEntry(o, newLabel, newDescription, newCategory) ==
    LET set == [o EXCEPT !.label = newLabel, !.description = newDescription,
                         !.category = newCategory]
    IN IF set # o THEN TriggerChange(set) ELSE o

\* updateInterpreterInfo([e]) of one listener, on the heap st = [objs, ci]
UpdateInterpreterInfo(sub, eid, found, st) ==
    LET changedEnv == IF eid = st.ci[sub.conn].id THEN eid ELSE "undefined"
        interpreter == IF found.id = changedEnv THEN found ELSE NoEnv
    IN IF interpreter # NoEnv
         THEN LET ci2 == [st.ci EXCEPT ![sub.conn] = interpreter]
              IN [objs |-> [st.objs EXCEPT ![sub.oid] =
                              UpdateEntry(@, Label(sub.conn, ci2),
                                          Description(sub.conn, ci2),
                                          CategorySync(sub.conn, ci2))],
                  ci |-> ci2]
         ELSE st

RECURSIVE RunListeners(_, _, _, _)
RunListeners(ss, eid, found, st) ==
    IF ss = <<>> THEN st
    ELSE RunListeners(Tail(ss), eid, found, UpdateInterpreterInfo(Head(ss), eid, found, st))

\* this.interpreters.onDidChangeInterpreter fires with environment eid while
\* resolvedEnvironments.find yields found (NoEnv when it holds no such id)
InterpreterChanged(eid, found) ==
    /\ events < MaxEvents
    /\ found = NoEnv \/ found.id = eid
    /\ events' = events + 1
    /\ lastEvent' = eid
    /\ LET st == RunListeners(subs, eid, found, [objs |-> objs, ci |-> connInterp])
       IN objs' = st.objs /\ connInterp' = st.ci
    /\ UNCHANGED <<details, subs, inflight, settled, returned, gets, firstGet, unhandled>>

\* a category refresh that assigns without notifying
ApplyRefresh_silentCategory(o, what, v) ==
    IF what = "name"
      THEN (IF o.serverDisplayName # v
              THEN TriggerChange([o EXCEPT !.serverDisplayName = v]) ELSE o)
      ELSE [o EXCEPT !.category = v]
\* the .then callbacks of the two refreshes
ApplyRefresh(o, what, v) ==
    IF what = "name"
      THEN (IF o.serverDisplayName # v
              THEN TriggerChange([o EXCEPT !.serverDisplayName = v]) ELSE o)
      ELSE (IF o.category # v
              THEN TriggerChange([o EXCEPT !.category = v]) ELSE o)

RefreshResolved(r, v) ==
    /\ r \in inflight
    /\ v \in LookupResults(r.what)
    /\ objs' = [objs EXCEPT ![r.oid] = ApplyRefresh(@, r.what, v)]
    /\ inflight' = inflight \ {r}
    /\ settled' = settled \cup {Settle(r, v)}
    /\ UNCHANGED <<details, connInterp, subs, returned, gets, events, lastEvent, firstGet,
                   unhandled>>

\* only the server-name refresh ends in a catch
Caught_nameOnly(what) == what = "name"
\* .catch(noop) ends both chains
Caught(what) == TRUE

RefreshRejected(r) ==
    /\ r \in inflight
    /\ inflight' = inflight \ {r}
    /\ settled' = settled \cup {Settle(r, Rejected)}
    /\ unhandled' = IF Caught(r.what) THEN unhandled ELSE unhandled + 1
    /\ UNCHANGED <<details, objs, connInterp, subs, returned, gets, events, lastEvent,
                   firstGet>>

----------------------------------------------------------------------------
\* Specifications

Init == InitExport /\ InitServer /\ InitValidate /\ InitDisplay

\* One call of an ExportBase method
Next ==
    \/ Export /\ UNCHANGED notExportVars
    \/ \E k \in Kernels, s \in Sessions, f \in Formats : ExecuteCommand(k, s, f) /\ UNCHANGED notExportVars
    \/ \E o \in StartOutcomes : StartDone(o) /\ UNCHANGED notExportVars
    \/ \E ok \in BOOLEAN : CreateConnectionInfoDone(ok) /\ UNCHANGED notExportVars
    \/ \E ok \in BOOLEAN : GetServerConnectSettingsDone(ok) /\ UNCHANGED notExportVars
    \/ \E ok \in BOOLEAN : GetContentDone(ok) /\ UNCHANGED notExportVars
    \/ \E o \in BackingFileOutcomes : CreateBackingFileDone(o) /\ UNCHANGED notExportVars
    \/ \E ok \in BOOLEAN, alive \in BOOLEAN : SaveDone(ok, alive) /\ UNCHANGED notExportVars
    \/ \E ok \in BOOLEAN : CwdDone(ok) /\ UNCHANGED notExportVars
    \/ \E ok \in BOOLEAN : NewUntitledDone(ok) /\ UNCHANGED notExportVars
    \/ \E ok \in BOOLEAN, o \in OutputLists : NbconvertDone(ok, o) /\ UNCHANGED notExportVars
    \/ \E ok \in BOOLEAN : GetDone(ok) /\ UNCHANGED notExportVars
    \/ \E ok \in BOOLEAN : WriteFileDone(ok) /\ UNCHANGED notExportVars
    \/ \E ok \in BOOLEAN : DeleteTempDone(ok) /\ UNCHANGED notExportVars
    \/ DisposeBackingDone /\ UNCHANGED notExportVars
    \/ \E ok \in BOOLEAN : DeleteBackingDone(ok) /\ UNCHANGED notExportVars
    \/ \E r \in BOOLEAN : InvokeWithFileSynced(r) /\ UNCHANGED notExportVars
    \/ \E o \in BackingFileOutcomes : SyncCreateBackingFileDone(o) /\ UNCHANGED notExportVars
    \/ \E ok \in BOOLEAN : SyncSaveDone(ok) /\ UNCHANGED notExportVars
    \/ \E o \in HandlerOutcomes : SyncHandlerDone(o) /\ UNCHANGED notExportVars
    \/ SyncDisposeDone /\ UNCHANGED notExportVars
    \/ \E ok \in BOOLEAN : SyncDeleteDone(ok) /\ UNCHANGED notExportVars

Spec == Init /\ [][Next]_vars

\* A series of addJupyterServer calls
NextSel ==
    \/ \E p \in Providers, x \in BOOLEAN : AddJupyterServer(p, x) /\ UNCHANGED notServerVars
    \/ \E e \in ValidationOutcomes : ValidateDone(e) /\ UNCHANGED notServerVars
    \/ \E h \in BOOLEAN : PromptDone(h) /\ UNCHANGED notServerVars
    \/ HandleErrorDone /\ UNCHANGED notServerVars
    \/ AddDone /\ UNCHANGED notServerVars
SpecServer == Init /\ [][NextSel]_vars

\* One call of validateSelectJupyterURI
NextValidate ==
    \/ \E w \in BOOLEAN : ValidateSelectJupyterURI(w) /\ UNCHANGED notValidateVars
    \/ \E k \in ValidationOutcomes, m \in Messages : SelectValidateDone(k, m) /\ UNCHANGED notValidateVars
    \/ \E h \in BOOLEAN : SelectPromptDone(h) /\ UNCHANGED notValidateVars
SpecValidate == Init /\ [][NextValidate]_vars

\* The display data provider with its refreshes and interpreter events
NextDisplay ==
    \/ \E c \in Connections : GetDisplayData(c) /\ UNCHANGED notDisplayVars
    \/ \E e \in EnvIds, f \in ResolvedEnvs \cup {NoEnv} : InterpreterChanged(e, f) /\ UNCHANGED notDisplayVars
    \/ \E r \in inflight, v \in LookupResults("category") \cup LookupResults("name") : RefreshResolved(r, v) /\ UNCHANGED notDisplayVars
    \/ \E r \in inflight : RefreshRejected(r) /\ UNCHANGED notDisplayVars
SpecDisplay == Init /\ [][NextDisplay]_vars

----------------------------------------------------------------------------
\* Observations on a call of ExportBase

Done == pc = "done"
IsExecuteCommand == method = "executeCommand"
IsSync == method = "invokeWithFileSynced"

Logged(o, a, k) == \E i \in DOMAIN ops : ops[i] = Op(o, a, k)
Called(o) == \E i \in DOMAIN ops : ops[i].op = o
Count(o, a) == Cardinality({i \in DOMAIN ops : ops[i].op = o /\ ops[i].arg = a})

\* the remote file was created by this call
Created(f) ==
    IF f = "bf" THEN Logged("createBackingFile", "file", TRUE)
                ELSE Logged("newUntitled", f, TRUE)
\* contentsManager.delete(f) was called
DeleteCalled(f) == Count("delete", f) > 0

FileOps == {"createBackingFile", "save", "newUntitled", "get", "writeFile", "delete"}
NoFileIO == (\A i \in DOMAIN ops : ops[i].op \notin FileOps) /\ ~localWritten /\ remoteFiles = {}
NoExportEffects ==
    /\ NoFileIO
    /\ ~Called("createConnectionInfo")
    /\ ~Called("getServerConnectSettings")
    /\ ~Called("executeSilently")
    /\ cm = "none"

\* the nbconvert command ran and its output was not classified as a failure
ConversionSucceeded ==
    Logged("executeSilently", "nbconvert", TRUE) /\ ~isExportFailed(text)

----------------------------------------------------------------------------
\* C1: when executeCommand has returned or thrown, contentsManager.delete has
\* been called for every backing file and temporary output file it created.
\* (Fails: a rejected delete of the temporary file skips the rest of finally.)
C1_CreatedFilesDeleted ==
    (IsExecuteCommand /\ Done) =>
        \A f \in {"bf", "tmp"} : Created(f) => DeleteCalled(f)

\* C2: when a cleanup deletion failed, the caller does not see that failure and
\* the backing file was disposed, its deletion was called and the contents
\* manager was disposed.
C2_CleanupFailuresSwallowed ==
    (IsExecuteCommand /\ Done /\ (Logged("delete", "tmp", FALSE) \/ Logged("delete", "bf", FALSE))) =>
        /\ result # Threw(CallFailed("delete"))
        /\ bfHandle = "disposed"
        /\ DeleteCalled("bf")
        /\ cm = "disposed"

\* C3: after a successful conversion the temporary output file and the backing
\* file have each been deleted exactly once when the call has ended.
C3_DeletedExactlyOnce ==
    (IsExecuteCommand /\ Done /\ ConversionSucceeded) =>
        /\ Count("delete", "tmp") = 1
        /\ Count("delete", "bf") = 1

\* C4: once invokeWithFileSynced has invoked the handler and ended, the backing
\* file it staged is disposed and its deletion was called, whatever the handler did.
C4_SyncAlwaysCleansUp ==
    (IsSync /\ Done /\ Called("handler")) =>
        /\ bfHandle = "disposed"
        /\ DeleteCalled("bf")
        /\ Logged("backingFile.dispose", "bf", TRUE)

\* C5: a contents manager created by executeCommand is disposed when the call
\* has ended.
C5_ContentsManagerDisposed ==
    (IsExecuteCommand /\ Done /\ cm # "none") => cm = "disposed"

\* kernel.start was awaited and threw
StartThrew == Logged("kernel.start", "throw", FALSE)
\* kernel.session as the guards of executeCommand read it
SessionAtGuard ==
    IF \E i \in DOMAIN ops : ops[i].op = "kernel.start" /\ ops[i].ok
      THEN (CHOOSE o \in {"ok", "noKernel", "none"} : Logged("kernel.start", o, TRUE))
      ELSE entrySession

\* C6 as stated: a call of export or executeCommand made while the kernel has
\* no session returns without throwing and has done no file I/O.
C6_NoSessionNoIO ==
    (Done /\ method \in {"export", "executeCommand"} /\ entrySession = "none") =>
        (result = Returned /\ NoFileIO)

\* C6 amended: export() always returns having done no file I/O; executeCommand
\* returns having done no file I/O when there is no kernel for the document, or
\* when the kernel had no session and kernel.start completed without leaving a
\* session that has a kernel handle.
C6_NoSessionAfterStartNoIO ==
    (Done /\ (\/ method = "export"
              \/ (IsExecuteCommand /\ ~kernel.exists)
              \/ (IsExecuteCommand /\ entrySession = "none" /\ ~StartThrew
                    /\ SessionAtGuard # "ok"))) =>
        (result = Returned /\ NoFileIO)

\* C6 witness: a remote kernel without resource whose start left it without session
C6_Witness ==
    /\ Done /\ IsExecuteCommand /\ kernel.exists /\ kernel.remote /\ ~kernel.resource
    /\ entrySession = "none"
    /\ Logged("kernel.start", "none", TRUE)
    /\ result = Returned

\* C7 as stated: if the kernel's session has no kernel handle, or its connection
\* is not remote, or it has a resource URI, executeCommand returns without an
\* error, having resolved no connection, touched no file and run no code.
C7_EarlyExitsSilent ==
    (IsExecuteCommand /\ Done /\ kernel.exists
       /\ (entrySession = "noKernel" \/ ~kernel.remote \/ kernel.resource)) =>
        (result = Returned /\ NoExportEffects)

\* C7 amended: the same, provided kernel.start was not needed or completed
\* without throwing; when kernel.start throws, that error reaches the caller,
\* still with no connection resolved, no file touched and no code run.
C7_EarlyExitsAfterStart ==
    (IsExecuteCommand /\ Done /\ kernel.exists) =>
        /\ (~StartThrew /\ (SessionAtGuard # "ok" \/ ~kernel.remote \/ kernel.resource)) =>
              (result = Returned /\ NoExportEffects)
        /\ StartThrew =>
              (result = Threw(CallFailed("kernel.start")) /\ NoExportEffects)

\* C7 witness: a remote kernel with a session and a resource URI
C7_Witness ==
    /\ Done /\ IsExecuteCommand /\ kernel.exists /\ entrySession = "ok"
    /\ kernel.remote /\ kernel.resource
    /\ result = Returned /\ ops = <<>>

\* What C8 says of one list of outputs of the conversion command
C8_NoText(o) ==
    \/ o.length = 0
    \/ (o.first.name # "stdout" /\ o.first.output_type # "stream")
    \/ \A i \in DOMAIN o.first.text : o.first.text[i] \in {<<>>, <<"ws">>}
C8_HasTraceback(o) ==
    /\ o.length > 0
    /\ o.first.output_type = "stream"
    /\ \E i \in DOMAIN o.first.text : o.first.text[i] = <<"TB">>
C8_Expected(o) ==
    IF C8_HasTraceback(o)
      THEN /\ pending = Err("Error", Trim(Flatten(o.first.text)))
           /\ pc = "deleteTemp"
      ELSE IF C8_NoText(o)
             THEN /\ pending = Err("Error", FallbackMessage(format))
                  /\ pc = "deleteTemp"
             ELSE /\ pending = NoError
                  /\ pc = "get"

\* C8: when the conversion command has run, a captured text containing the
\* traceback signature is thrown as the error message, no captured text (no
\* outputs, a first output that is neither stdout nor a stream, empty after
\* trimming) throws the fallback message, any other text throws nothing.
C8_FailureDetection ==
    outputs # <<>> => C8_Expected(outputs[1])

\* C8 witness: the finally block runs with an error whose message is a
\* multi-token text holding the traceback signature
C8_Witness ==
    /\ pc = "deleteTemp"
    /\ outputs # <<>>
    /\ pending.name = "Error"
    /\ Len(pending.message) > 1
    /\ \E i \in DOMAIN pending.message : pending.message[i] = "TB"
    /\ text = Some(pending.message)

----------------------------------------------------------------------------
\* Observations on addJupyterServer calls

CertErrors == {"selfCerts", "selfCertsExpired"}
\* log entry j belongs to the same call as entry i and precedes it
Earlier(j, i) == j < i /\ sLog[j].call = sLog[i].call /\ sLog[j].provider = sLog[i].provider
\* the running (or last) call showed a prompt with this answer
Prompted(h) ==
    \E i \in DOMAIN sLog : sLog[i].call = calls /\ sLog[i].op = "prompt" /\ sLog[i].answer = h

\* C9 as stated: serverUriStorage.add(provider) is called only after
\* validateRemoteUri completed without error for that provider in that call.
C9_AddOnlyAfterValidation ==
    \A i \in DOMAIN sLog : sLog[i].op = "add" =>
        \E j \in DOMAIN sLog :
            /\ Earlier(j, i)
            /\ sLog[j].op = "validateRemoteUri"
            /\ sLog[j].arg = "none"

\* C9 amended: add(provider) is called only after validateRemoteUri completed
\* without error in that call or, on the legacy path, after it failed with a
\* (possibly expired) self-signed certificate error and the user accepted the
\* prompt; the store changes by these calls only.
C9_AddOnlyAfterValidationOrTrust ==
    /\ \A i \in DOMAIN sLog : sLog[i].op = "add" =>
          \E j \in DOMAIN sLog :
              /\ Earlier(j, i)
              /\ sLog[j].op = "validateRemoteUri"
              /\ \/ sLog[j].arg = "none"
                 \/ /\ sLog[j].arg \in CertErrors
                    /\ sLog[i].path = "old"
                    /\ \E k \in DOMAIN sLog :
                          /\ j < k /\ Earlier(k, i)
                          /\ sLog[k].op = "prompt"
                          /\ sLog[k].answer = "yes"
    /\ Len(storage) = Cardinality({i \in DOMAIN sLog : sLog[i].op = "add"})

\* C9 witness: a provider stored on the legacy path after an accepted prompt
C9_Witness ==
    /\ spc = "idle" /\ sPath = "old" /\ sErr = "selfCertsExpired"
    /\ Prompted("yes")
    /\ storage = storage0 \o <<sProvider>>

\* C10: on the legacy path a (possibly expired) self-signed certificate error
\* of validation leads to a prompt, and when the user declines the call ends
\* with the server URI store as it was when the call started.
C10_CertErrorPromptsAndDeclineKeepsStore ==
    (calls > 0 /\ sPath = "old" /\ sErr \in CertErrors) =>
        /\ spc \in {"prompt", "add", "idle"}
        /\ spc # "prompt" => (Prompted("yes") \/ Prompted("no"))
        /\ Prompted("no") => (spc = "idle" /\ storage = storage0)

\* C10 witness: a declined prompt in a call made with a non-empty store
C10_Witness ==
    /\ spc = "idle" /\ sPath = "old" /\ sErr = "selfCerts"
    /\ Prompted("no")
    /\ storage = storage0 /\ storage # <<>>

\* the log entries of call c for operation o
SCalls(c, o) == {i \in DOMAIN sLog : sLog[i].call = c /\ sLog[i].op = o}
\* the running call has ended
SEnded == calls > 0 /\ spc = "idle"

\* C11: on the legacy path errorHandler.handleError is called, once and with
\* the generated id, the provider and the error, exactly when validation
\* failed with an error that is no certificate error and no invalid password;
\* then, and for an invalid password, no prompt is shown and the call ends
\* with the server URI store as it was.
C11_StructuredErrorOnlyForOtherErrors ==
    (calls > 0 /\ sPath = "old") =>
        /\ Cardinality(SCalls(calls, "handleError")) <= 1
        /\ \A i \in SCalls(calls, "handleError") :
              /\ sErr = "other"
              /\ sLog[i].arg = sErr
              /\ sLog[i].provider = sProvider
              /\ sLog[i].id = <<"id", sProvider>>
        /\ (SEnded /\ sErr = "other") => Cardinality(SCalls(calls, "handleError")) = 1
        /\ sErr \in {"other", "invalidPassword"} =>
              /\ SCalls(calls, "prompt") = {}
              /\ SCalls(calls, "add") = {}
              /\ storage = storage0
              /\ spc \in {"handleError", "idle"}

\* C11 witness: a generic error was reported in a call made with a non-empty store
C11_Witness ==
    /\ SEnded /\ sPath = "old" /\ sErr = "other"
    /\ Cardinality(SCalls(calls, "handleError")) = 1
    /\ storage = storage0 /\ storage # <<>>

\* C12: on the new path a validation error of any kind ends the call with the
\* store as it was, without prompt and without errorHandler call; a successful
\* validation adds the provider to the store exactly once.
C12_NewPathAbortsOnAnyError ==
    (calls > 0 /\ sPath = "new") =>
        /\ SCalls(calls, "prompt") = {}
        /\ SCalls(calls, "handleError") = {}
        /\ sErr # "none" => (spc = "idle" /\ storage = storage0 /\ SCalls(calls, "add") = {})
        /\ (SEnded /\ sErr = "none") =>
              /\ storage = storage0 \o <<sProvider>>
              /\ Cardinality(SCalls(calls, "add")) = 1

\* C12 witness: a certificate error on the new path, with a non-empty store
C12_Witness ==
    /\ SEnded /\ sPath = "new" /\ sErr = "selfCerts"
    /\ storage = storage0 /\ storage # <<>>

\* C18: validateRemoteUri is called at most once in every addJupyterServer
\* call and exactly once in every call that has passed its validation, also
\* after an accepted certificate prompt.
C18_ValidatedExactlyOnce ==
    \A c \in 1..calls :
        /\ Cardinality(SCalls(c, "validateRemoteUri")) <= 1
        /\ (c < calls \/ spc # "validate") => Cardinality(SCalls(c, "validateRemoteUri")) = 1

\* C18 witness: a provider stored after an accepted self-signed certificate prompt
C18_Witness ==
    /\ SEnded /\ sPath = "old" /\ sErr = "selfCerts"
    /\ Prompted("yes")
    /\ Cardinality(SCalls(calls, "validateRemoteUri")) = 1
    /\ Cardinality(SCalls(calls, "add")) = 1

----------------------------------------------------------------------------
\* the positions of the log where operation o was called with argument a
At(o, a) == {i \in DOMAIN ops : ops[i].op = o /\ ops[i].arg = a}
\* the conversion command ran and its captured text counts as a failure
C19_ClassifiedFailed ==
    /\ Logged("executeSilently", "nbconvert", TRUE)
    /\ \/ ~text.def
       \/ text.v = <<>>
       \/ \E i \in DOMAIN text.v : text.v[i] = "TB"

\* C19: in one executeCommand call the save of the backing file precedes the
\* cwd probe, the temporary output file is allocated before the conversion
\* command runs, the local destination is written only after a conversion
\* that ran and was not classified as failed, and never after a failed one.
C19_StepsInOrder ==
    IsExecuteCommand =>
        /\ \A i \in At("executeSilently", "cwd") : \E j \in At("save", "bf") : j < i
        /\ \A i \in At("executeSilently", "nbconvert") :
              \E j \in At("newUntitled", "tmp") : j < i /\ ops[j].ok
        /\ \A i \in At("writeFile", "target") :
              /\ \E j \in At("executeSilently", "nbconvert") : j < i /\ ops[j].ok
              /\ ~C19_ClassifiedFailed
        /\ C19_ClassifiedFailed => (At("writeFile", "target") = {} /\ ~localWritten)
        /\ localWritten => At("writeFile", "target") # {}

\* C19 witness: a call that went through every step and wrote the destination
C19_Witness ==
    /\ IsExecuteCommand /\ Done /\ localWritten
    /\ text.def /\ text.v # <<>>
    /\ At("executeSilently", "cwd") # {}
    /\ result = Returned

\* the cleanup of the finally block, in order, as the last calls of the log
CleanupCalls ==
    (IF tempTarget # "" THEN <<"delete">> ELSE <<>>)
        \o <<"backingFile.dispose", "delete", "contentsManager.dispose">>
CleanupRanInOrder ==
    /\ Len(ops) >= Len(CleanupCalls)
    /\ \A k \in 1..Len(CleanupCalls) :
          ops[Len(ops) - Len(CleanupCalls) + k].op = CleanupCalls[k]
    /\ Count("delete", "bf") = 1
    /\ tempTarget # "" => Count("delete", tempTarget) = 1

\* C20: an exception raised inside the try block of executeCommand reaches the
\* caller, and does so after the cleanup ran in the order delete temporary
\* file (if allocated), dispose backing file, delete backing file, dispose
\* contents manager.
C20_ExceptionAfterOrderedCleanup ==
    (IsExecuteCommand /\ Done /\ pending # NoError) =>
        /\ result = Threw(pending)
        /\ CleanupRanInOrder
        /\ cm = "disposed"

----------------------------------------------------------------------------
\* Observations on validateSelectJupyterURI

\* where a URL starts in a message: at "http(s)://" followed by a character
\* that is no whitespace, unless an earlier URL already runs over it
UrlStarts(t) ==
    {i \in DOMAIN t :
        /\ t[i] = "h" /\ i < Len(t) /\ t[i + 1] # "ws"
        /\ ~ \E j \in 1..(i - 1) : t[j] = "h" /\ \A k \in j..i : t[k] # "ws"}
\* a rendered message without its link markup: "[url](url)" becomes "url"
RECURSIVE Unlink(_, _)
Unlink(r, inTarget) ==
    IF r = <<>> THEN <<>>
    ELSE IF Head(r) = "[" THEN Unlink(Tail(r), FALSE)
    ELSE IF Head(r) = "](" THEN Unlink(Tail(r), TRUE)
    ELSE IF Head(r) = ")" THEN Unlink(Tail(r), FALSE)
    ELSE IF inTarget THEN Unlink(Tail(r), TRUE)
    ELSE <<Head(r)>> \o Unlink(Tail(r), FALSE)
\* the targets of the links of a rendered message equal their labels
RECURSIVE LinksWellFormed(_)
LinksWellFormed(r) ==
    IF r = <<>> THEN TRUE
    ELSE IF Head(r) = "["
           THEN LET n == CHOOSE k \in 1..Len(r) : r[k] = "]("
                    label == SubSeq(r, 2, n - 1)
                IN /\ \E k \in 1..Len(r) : r[k] = "]("
                   /\ Len(r) >= 2 * Len(label) + 3
                   /\ SubSeq(r, n + 1, n + Len(label)) = label
                   /\ r[n + Len(label) + 1] = ")"
                   /\ LinksWellFormed(SubSeq(r, n + Len(label) + 2, Len(r)))
           ELSE LinksWellFormed(Tail(r))
Opens(r) == Cardinality({i \in DOMAIN r : r[i] = "["})

\* C13 as stated: validateSelectJupyterURI returns undefined when validation
\* succeeds and a string when validation fails.
C13_UndefinedIffValid ==
    vpc = "done" => (vRet.def <=> vErr.kind # "none")

\* C13 amended: it returns undefined when validation succeeds or fails with a
\* (possibly expired) self-signed certificate error that the user accepts in
\* the prompt; otherwise it returns an error string, for a generic error the
\* connection-failed message holding the error text with every http(s) URL
\* rendered as [url](url).
C13_UndefinedIffValidOrTrusted ==
    vpc = "done" =>
        /\ vErr.kind = "none" => (vRet = Undefined /\ vAnswers = <<>>)
        /\ vErr.kind \in {"selfCerts", "selfCertsExpired"} =>
              /\ Len(vAnswers) = 1
              /\ vAnswers[1] => vRet = Undefined
              /\ ~vAnswers[1] =>
                    vRet = Some(<<IF vErr.kind = "selfCerts"
                                    THEN "jupyterSelfCertFailErrorMessageOnly"
                                    ELSE "jupyterSelfCertExpiredErrorMessageOnly">>)
        /\ vErr.kind = "invalidPassword" => (vRet = Some(<<"passwordFailure">>) /\ vAnswers = <<>>)
        /\ vErr.kind = "other" =>
              /\ vRet.def /\ vAnswers = <<>>
              /\ LET body == Tail(vRet.v)
                     txt == IF vErr.message = <<>> THEN <<"c">> ELSE vErr.message
                 IN /\ Unlink(body, FALSE) = txt
                    /\ Opens(body) = Cardinality(UrlStarts(txt))
                    /\ LinksWellFormed(body)

\* C13 witness: a generic error whose message holds two URLs
C13_Witness ==
    /\ vpc = "done" /\ vErr.kind = "other"
    /\ Cardinality(UrlStarts(vErr.message)) = 2
    /\ vRet.def /\ Opens(vRet.v) = 2

----------------------------------------------------------------------------
\* Observations on ConnectionDisplayDataProvider

Requested == {p[1] : p \in returned}
EntryOf(id) == objs[details[id]]
Fields(o) == <<o.label, o.description, o.category, o.serverDisplayName>>
Resolved(id) == {s \in settled : s.id = id /\ s.res # Rejected}

\* C14: the cache holds exactly one entry per connection id ever requested,
\* the entry is never replaced or removed, and every getDisplayData call with
\* that id returned that same entry object.
C14_OneStableEntryPerIdentity ==
    /\ DOMAIN details = Requested
    /\ Len(objs) = Cardinality(Requested)
    /\ \A p \in returned : details[p[1]] = p[2] /\ objs[p[2]].id = p[1]

\* C14 witness: one identity requested twice, through two connection objects,
\* with an interpreter event and a refresh having changed the entry in between
C14_Witness ==
    /\ gets = 2 /\ Requested = {"k1"}
    /\ Cardinality({s.g : s \in settled}) = 2
    /\ events = 1 /\ EntryOf("k1").fired >= 2

\* C15: a step changes label, description, category or server display name of
\* an entry exactly when it fires one change notification on that entry.
C15_MutationIffNotification ==
    [][\A i \in DOMAIN objs :
          objs'[i].fired = objs[i].fired
                             + (IF Fields(objs'[i]) # Fields(objs[i]) THEN 1 ELSE 0)]_vars

\* C15 witness: an entry notified once by two refreshes that resolved, the
\* other one having recomputed the value already cached
C15_Witness ==
    \E id \in DOMAIN details :
        /\ events = 0
        /\ EntryOf(id).fired = 1
        /\ Cardinality(Resolved(id)) >= 2

\* C16: a rejected refresh changes no entry, fires no notification, leaves
\* every other refresh in flight and is handled: no rejection escapes.
C16_RefreshFailureDiscarded ==
    [][/\ unhandled' = 0
       /\ \A r \in inflight :
            Settle(r, Rejected) \in settled' \ settled =>
                /\ objs' = objs /\ details' = details
                /\ inflight' = inflight \ {r}]_vars

\* C16 witness: of the two refreshes of one call the server-name refresh was
\* rejected and the category refresh resolved and applied its update
C16_Witness ==
    \E s1, s2 \in settled :
        /\ gets = 1 /\ s1.g = s2.g
        /\ s1.what = "name" /\ s1.res = Rejected
        /\ s2.what = "category" /\ s2.res # Rejected
        /\ objs[s2.oid].category = s2.res /\ objs[s2.oid].fired = 1
        /\ objs[s2.oid].serverDisplayName = ""

----------------------------------------------------------------------------
\* the save of the notebook into the backing file was rejected
SaveFailed == Logged("save", "bf", FALSE)
\* the step that follows the save was entered: getCWD probed the kernel or
\* found the session disposed, respectively the handler was invoked
StepAfterSaveEntered ==
    /\ IsExecuteCommand =>
          \/ \E i \in At("executeSilently", "cwd") : \E j \in At("save", "bf") : j < i
          \/ pending = Err("SessionDisposedError", <<>>)
    /\ IsSync => \E i \in DOMAIN ops : ops[i].op = "handler" /\ \E j \in At("save", "bf") : j < i

\* C21: when the save of the notebook into the backing file failed, the call
\* does not end with that failure, it went on to the step after the save, and
\* when it has ended the backing file is disposed and its deletion was called.
\* (Fails: a rejected delete of the temporary file, or a handler that throws,
\* skips the disposal and the deletion of the backing file.)
C21_SaveFailureNotFatal ==
    (Done /\ SaveFailed) =>
        /\ result # Threw(CallFailed("save"))
        /\ StepAfterSaveEntered
        /\ bfHandle = "disposed"
        /\ DeleteCalled("bf")

----------------------------------------------------------------------------
\* the listeners registered for connection id
SubsOf(id) == {i \in DOMAIN subs : ConnId(subs[i].conn) = id}
\* the interpreter ids the registered listeners react to
ListenedEnvIds == {connInterp[subs[i].conn].id : i \in DOMAIN subs}
\* a listener exists at most once per id, belongs to the entry of the id and
\* to the connection of the first call, a Python connection whose
\* interpreter then was a Conda environment without Python
SubscriptionsAsFirstCall ==
    \A id \in DOMAIN firstGet :
        /\ Cardinality(SubsOf(id)) <= 1
        /\ \A i \in SubsOf(id) :
              /\ subs[i].conn = firstGet[id].conn
              /\ subs[i].conn \in PythonConnections
              /\ firstGet[id].isCondaEnvWithoutPython
              /\ subs[i].oid = details[id]

\* C22: at most one interpreter-change listener is ever registered per
\* connection id, and only for a Python connection whose interpreter was a
\* Conda environment without Python at the first getDisplayData call; a later
\* call for the id adds none, and an event for an interpreter id no listener
\* waits for changes no entry and fires no notification.
C22_OneSubscriptionPerIdentity ==
    [][/\ SubscriptionsAsFirstCall'
       /\ (gets' = gets + 1 /\ DOMAIN firstGet' = DOMAIN firstGet) => subs' = subs
       /\ (events' = events + 1 /\ lastEvent' \notin ListenedEnvIds) =>
             objs' = objs /\ connInterp' = connInterp]_vars

\* C22 witness: an id first requested with a Conda environment without
\* Python and requested again holds one listener, and an event for another
\* interpreter id has been fired
C22_Witness ==
    /\ gets = 2 /\ Requested = {"k1"}
    /\ firstGet["k1"].isCondaEnvWithoutPython
    /\ Len(subs) = 1
    /\ events = 1 /\ lastEvent = "i2"
    /\ EntryOf("k1").fired = 0

----------------------------------------------------------------------------
\* the refreshes of one kind settled for connection id
SettledFor(id, what) == {s \in settled : s.id = id /\ s.what = what}
\* a refresh of that kind is still in flight for connection id
InFlightFor(id, what) == \E r \in inflight : r.id = id /\ r.what = what
\* the one started by the latest getDisplayData call
LatestStarted(id, what) ==
    CHOOSE s \in SettledFor(id, what) : \A t \in SettledFor(id, what) : t.g <= s.g
\* the field of the entry a refresh of that kind writes
RefreshedField(o, what) == IF what = "name" THEN o.serverDisplayName ELSE o.category

\* C23: once every category (server-name) refresh started for a connection has
\* settled, the entry's category (server display name) is the result of the
\* lookup started last. (Fails: each lookup writes its result when it settles,
\* so an older lookup that settles later overwrites the newer result.)
C23_LatestStartedLookupWins ==
    \A id \in DOMAIN details, what \in {"category", "name"} :
        (/\ events = 0
         /\ SettledFor(id, what) # {}
         /\ ~InFlightFor(id, what)
         /\ LatestStarted(id, what).res # Rejected) =>
            RefreshedField(EntryOf(id), what) = LatestStarted(id, what).res

====
